---- MODULE Spec2Model ----
(***************************************************************************)
(* A model of eiffelactory/eiffel.py: the Eiffel event records (dict       *)
(* subclasses), the factory create_artifact_published_event and the three  *)
(* classifier functions is_eiffel_event_type, is_artifact_created_event    *)
(* and is_sent_from_sources.                                               *)
(*                                                                         *)
(* Python values are tagged records, so that values of different Python    *)
(* types can be compared: None, str, int, list and dict.  A dict is a      *)
(* function from its keys (strings) to values; a key the dict does not     *)
(* hold is outside the function's DOMAIN.                                  *)
(***************************************************************************)
EXTENDS Integers, Sequences, FiniteSets, TLC

\* ------------------------------------------------------------------ bounds
MaxCalls == 2         \* calls of the factory or of Meta() started in a run
MaxTime == 2          \* the wall clock runs from 1 to MaxTime
MaxSources == 2       \* longest list of source names passed to the classifier

\* ------------------------------------------------------------ Python values
None == [t |-> "NoneType"]
PyStr(s) == [t |-> "str", v |-> s]
PyInt(n) == [t |-> "int", v |-> n]
PyList(s) == [t |-> "list", v |-> s]
PyDict(f) == [t |-> "dict", v |-> f]
\* a local variable that is not bound (yet)
Unbound == [t |-> "unbound"]

\* the outcome of a call: a returned value or a raised exception
Return(v) == [kind |-> "return", value |-> v]
Raise(e) == [kind |-> "raise", exc |-> e]

\* all sequences over S of length at most n
RECURSIVE SeqUpTo(_, _)
SeqUpTo(S, n) ==
    IF n = 0 THEN {<<>>}
    ELSE LET shorter == SeqUpTo(S, n - 1)
         IN shorter \cup {Append(s, x) : s \in {q \in shorter : Len(q) = n - 1}, x \in S}

Range(s) == {s[i] : i \in DOMAIN s}

\* --------------------------------------------------------- module constants
EIFFEL_ARTIFACT_PUBLISHED_EVENT == "EiffelArtifactPublishedEvent"
EIFFEL_ARTIFACT_CREATED_EVENT == "EiffelArtifactCreatedEvent"
VERSION_3_0_0 == "3.0.0"
EIFFELACTORY == "EIFFELACTORY"
Link_ARTIFACT == "ARTIFACT"
Location_ARTIFACTORY == "ARTIFACTORY"

\* ------------------------------------------------------------- the records
\* Event.__init__: dict(data=data, links=links, meta=meta)
Event(data, links, meta) ==
    PyDict([data |-> data, links |-> links, meta |-> meta])

\* the super().__init__ call of Meta.__init__, with event_id and time resolved
MetaDict(event_type, version, event_id, time, tags, source) ==
    PyDict([id |-> event_id, type |-> event_type, version |-> version,
            time |-> time, tags |-> tags, source |-> source])

\* Source.__init__
Source(domain_id, host, name, serializer, uri) ==
    PyDict([domainId |-> domain_id, host |-> host, name |-> name,
            serializer |-> serializer, uri |-> uri])

\* a variant of Source() whose optional fields default to the empty string
SourceDefaults_EmptyStrings ==
    Source(PyStr(""), PyStr(""), PyStr(EIFFELACTORY), PyStr(""), PyStr(""))

\* Source(): every parameter at its default
SourceDefaults == Source(None, None, PyStr(EIFFELACTORY), None, None)

\* Link.__init__
Link(link_type, target) == PyDict([type |-> link_type, target |-> target])

\* a variant of ArtifactPublishedData that stores the locations in reverse
RECURSIVE Reversed(_)
Reversed(seq) ==
    IF seq = <<>> THEN <<>> ELSE Append(Reversed(Tail(seq)), Head(seq))
ArtifactPublishedData_Reversed(locations) ==
    PyDict([locations |-> PyList(Reversed(locations.v))])

\* ArtifactPublishedData.__init__
ArtifactPublishedData(locations) == PyDict([locations |-> locations])

\* Location.__init__
Location(uri, location_type) == PyDict([type |-> location_type, uri |-> uri])

\* str(uuid.uuid4()) for the n-th of the values uuid4 can draw
UuidStr(n) == PyStr("uuid-" \o ToString(n))

\* ------------------------------------------------- Python's dict operations
\* a is a substring of b, for the strings the documents below hold
IsSubstring(a, b) == a = b \/ <<a, b>> \in {<<"name", "hostname">>}

\* obj[key] for a str key: only a dict can be subscripted by a str
getitem(obj, key) ==
    IF obj.t = "dict"
    THEN IF key \in DOMAIN obj.v THEN Return(obj.v[key]) ELSE Raise("KeyError")
    ELSE Raise("TypeError")

\* item in obj: a key of a dict, an element of a list, a substring of a str;
\* None and an int are not iterable
contains(obj, item) ==
    CASE obj.t = "dict" ->
            IF item.t \in {"list", "dict"} THEN Raise("TypeError")
            ELSE Return(item.t = "str" /\ item.v \in DOMAIN obj.v)
      [] obj.t = "list" -> Return(\E i \in DOMAIN obj.v : obj.v[i] = item)
      [] obj.t = "str" ->
            IF item.t = "str" THEN Return(IsSubstring(item.v, obj.v))
            ELSE Raise("TypeError")
      [] obj.t \in {"NoneType", "int"} -> Raise("TypeError")

\* ---------------------------------------------------------- the classifier
\* str.lower() on the event types
Lower(str) ==
    CASE str = "EiffelArtifactCreatedEvent" -> "eiffelartifactcreatedevent"
      [] str = "EiffelArtifactPublishedEvent" -> "eiffelartifactpublishedevent"
      [] OTHER -> str

\* a variant of is_eiffel_event_type that compares the types ignoring case
is_eiffel_event_type_IgnoreCase(ev, ty) ==
    LET meta == getitem(ev, "meta") IN
    IF meta.kind = "raise" THEN meta ELSE
    LET meta_type == getitem(meta.value, "type") IN
    IF meta_type.kind = "raise" THEN meta_type ELSE
    IF meta_type.value.t = "str" /\ ty.t = "str"
    THEN Return(Lower(meta_type.value.v) = Lower(ty.v))
    ELSE Return(meta_type.value = ty)

\* return event['meta']['type'] == event_type
is_eiffel_event_type(ev, ty) ==
    LET meta == getitem(ev, "meta") IN
    IF meta.kind = "raise" THEN meta ELSE
    LET meta_type == getitem(meta.value, "type") IN
    IF meta_type.kind = "raise" THEN meta_type ELSE
    Return(meta_type.value = ty)

\* a variant of is_artifact_created_event that asks for the other event type
is_artifact_created_event_Published(ev) ==
    is_eiffel_event_type(ev, PyStr(EIFFEL_ARTIFACT_PUBLISHED_EVENT))

\* return is_eiffel_event_type(event, EIFFEL_ARTIFACT_CREATED_EVENT)
is_artifact_created_event(ev) ==
    is_eiffel_event_type(ev, PyStr(EIFFEL_ARTIFACT_CREATED_EVENT))

\* a variant of is_sent_from_sources whose first guard does not test
\* event['meta']['source'] is None
is_sent_from_sources_NoNullGuard(ev, srcs) ==
    LET meta == getitem(ev, "meta") IN
    IF meta.kind = "raise" THEN meta ELSE
    LET has_source == contains(meta.value, PyStr("source")) IN
    IF has_source.kind = "raise" THEN has_source ELSE
    IF ~has_source.value THEN Return(FALSE) ELSE
    LET source == getitem(meta.value, "source") IN
    IF source.kind = "raise" THEN source ELSE
    LET has_name == contains(source.value, PyStr("name")) IN
    IF has_name.kind = "raise" THEN has_name ELSE
    IF ~has_name.value THEN Return(FALSE) ELSE
    LET name == getitem(source.value, "name") IN
    IF name.kind = "raise" THEN name ELSE
    IF name.value = None THEN Return(FALSE) ELSE
    contains(srcs, name.value)

\* a variant of is_sent_from_sources that compares the name with the first
\* source name only
is_sent_from_sources_FirstOnly(ev, srcs) ==
    LET meta == getitem(ev, "meta") IN
    IF meta.kind = "raise" THEN meta ELSE
    LET has_source == contains(meta.value, PyStr("source")) IN
    IF has_source.kind = "raise" THEN has_source ELSE
    IF ~has_source.value THEN Return(FALSE) ELSE
    LET source == getitem(meta.value, "source") IN
    IF source.kind = "raise" THEN source ELSE
    IF source.value = None THEN Return(FALSE) ELSE
    LET has_name == contains(source.value, PyStr("name")) IN
    IF has_name.kind = "raise" THEN has_name ELSE
    IF ~has_name.value THEN Return(FALSE) ELSE
    LET name == getitem(source.value, "name") IN
    IF name.kind = "raise" THEN name ELSE
    IF name.value = None THEN Return(FALSE) ELSE
    Return(srcs.v # <<>> /\ srcs.v[1] = name.value)

\* the two guards and the membership test of is_sent_from_sources
is_sent_from_sources(ev, srcs) ==
    LET meta == getitem(ev, "meta") IN
    IF meta.kind = "raise" THEN meta ELSE
    LET has_source == contains(meta.value, PyStr("source")) IN
    IF has_source.kind = "raise" THEN has_source ELSE
    IF ~has_source.value THEN Return(FALSE) ELSE
    LET source == getitem(meta.value, "source") IN
    IF source.kind = "raise" THEN source ELSE
    IF source.value = None THEN Return(FALSE) ELSE
    LET has_name == contains(source.value, PyStr("name")) IN
    IF has_name.kind = "raise" THEN has_name ELSE
    IF ~has_name.value THEN Return(FALSE) ELSE
    LET name == getitem(source.value, "name") IN
    IF name.kind = "raise" THEN name ELSE
    IF name.value = None THEN Return(FALSE) ELSE
    contains(srcs, name.value)

\* ------------------------------------------------------------------ inputs
\* two threads call into the module concurrently
Threads == {1, 2}
UuidPool == 1..MaxCalls

\* ids a caller may pass as the target of the ARTIFACT link; none of them has
\* to be the id of an existing event
LinkedEventIds == {PyStr("abc-123"), PyStr("no-such-event")}

LocationA == Location(PyStr("http://x/a.jar"), PyStr(Location_ARTIFACTORY))
LocationB == Location(PyStr("http://x/b.jar"), PyStr("OTHER"))

\* locations lists a caller may pass: the empty list, and the same two
\* locations in both orders
LocationLists ==
    {PyList(<<>>), PyList(<<LocationA, LocationB>>), PyList(<<LocationB, LocationA>>)}

\* the calls of the factory: each link target with the empty list and with a
\* list of two locations, the two lists in opposite orders
Requests ==
    {<<i, l>> \in LinkedEventIds \X LocationLists :
        \/ l = PyList(<<>>)
        \/ i = PyStr("abc-123") /\ l = PyList(<<LocationA, LocationB>>)
        \/ i = PyStr("no-such-event") /\ l = PyList(<<LocationB, LocationA>>)}

\* arguments of a direct Meta(...) call
MetaEventIds == {None, PyStr("explicit-id")}
MetaTimes == {None, PyInt(0)}
MetaTags == {PyList(<<PyStr("tag")>>)}
MetaSources == {None}

\* the event types is_eiffel_event_type is asked about
EventTypes ==
    {PyStr(EIFFEL_ARTIFACT_CREATED_EVENT), PyStr(EIFFEL_ARTIFACT_PUBLISHED_EVENT),
     PyStr("eiffelartifactcreatedevent")}

\* the configured source names, and the lists of them a caller passes: every
\* order, with and without duplicates
SourceNames == {PyStr("a"), PyStr(EIFFELACTORY)}
SourceLists == {PyList(s) : s \in SeqUpTo(SourceNames, MaxSources)}

\* what a received document holds under meta.type and under meta.source; a
\* document may also hold neither key
TypeValues == EventTypes \cup {None}
SourceValues ==
    {None,
     PyDict("host" :> None),
     Source(None, None, None, None, None),
     PyDict("name" :> PyStr("a")),
     SourceDefaults,
     Source(None, PyStr("ci"), PyStr("c"), None, None),
     PyInt(7), PyStr("jenkins"), PyStr("hostname")}

WithOptionalKey(f, key, values) == {f} \cup {f @@ (key :> v) : v \in values}

\* the meta objects of the received documents
MetaDocs ==
    UNION {WithOptionalKey(m, "source", SourceValues) :
              m \in WithOptionalKey("id" :> PyStr("e-1"), "type", TypeValues)}

\* the documents received from other producers: with each meta object, with
\* meta null and without meta
ExternalDocs ==
    {PyDict(("data" :> None) @@ ("links" :> PyList(<<>>)) @@ ("meta" :> PyDict(m))) :
        m \in MetaDocs}
    \cup {PyDict(("data" :> None) @@ ("meta" :> None)), PyDict("data" :> None)}

\* --------------------------------------------------------------- the state
VARIABLES
    pc,         \* pc[t]: the line thread t is about to execute, or "idle"
    frame,      \* frame[t]: the arguments and locals of thread t's call
    issued,     \* the values uuid.uuid4() has returned so far
    clock,      \* the wall clock, in milliseconds
    calls,      \* the number of calls started
    produced,   \* the events create_artifact_published_event has returned
    event,      \* the event document the classifier is called with
    sources,    \* the list of source names the classifier is called with
    type_arg,   \* the event type is_eiffel_event_type is called with
    result,     \* the outcome of the last classifier call
    lastCall    \* the name of the last classifier function called

factoryVars == <<pc, frame, issued, clock, calls, produced>>
classifierVars == <<event, sources, type_arg, result, lastCall>>
vars == <<pc, frame, issued, clock, calls, produced,
          event, sources, type_arg, result, lastCall>>

\* a thread that is in no call; uuid_calls and uuid_ret record the calls of
\* uuid.uuid4() the thread's call has made and the last value it got,
\* clock_reads and clock_ret those of utils.current_time_millis(), given_id
\* and given_time the event_id and time arguments as passed to Meta
IdleFrame ==
    [op |-> "none",
     artc_event_id |-> Unbound, locations |-> Unbound,
     data |-> Unbound, links |-> Unbound,
     event_type |-> Unbound, version |-> Unbound,
     given_id |-> Unbound, given_time |-> Unbound,
     event_id |-> Unbound, time |-> Unbound,
     tags |-> Unbound, source |-> Unbound,
     meta |-> Unbound, event |-> Unbound,
     uuid_calls |-> 0, uuid_ret |-> Unbound,
     clock_reads |-> 0, clock_ret |-> Unbound]

\* ---------------------------------------- create_artifact_published_event
\* the call: binds the two parameters
CallCreate(t, artc_event_id, locations) ==
    /\ pc[t] = "idle"
    /\ calls < MaxCalls
    /\ calls' = calls + 1
    /\ frame' = [frame EXCEPT ![t] = [IdleFrame EXCEPT
                    !.op = "create",
                    !.artc_event_id = artc_event_id,
                    !.locations = locations]]
    /\ pc' = [pc EXCEPT ![t] = "l147"]
    /\ UNCHANGED <<issued, clock, produced, classifierVars>>

\* data = ArtifactPublishedData(locations)
L147(t) ==
    /\ pc[t] = "l147"
    /\ frame' = [frame EXCEPT ![t].data = ArtifactPublishedData(frame[t].locations)]
    /\ pc' = [pc EXCEPT ![t] = "l148"]
    /\ UNCHANGED <<issued, clock, calls, produced, classifierVars>>

\* links = [Link(Link.ARTIFACT, artc_event_id)]
L148(t) ==
    /\ pc[t] = "l148"
    /\ frame' = [frame EXCEPT ![t].links =
                    PyList(<<Link(PyStr(Link_ARTIFACT), frame[t].artc_event_id)>>)]
    /\ pc' = [pc EXCEPT ![t] = "l149"]
    /\ UNCHANGED <<issued, clock, calls, produced, classifierVars>>

\* a variant of line 149 that passes the time it has at hand to Meta, so
\* that Meta does not read the clock
L149_PassesTime(t) ==
    /\ pc[t] = "l149"
    /\ frame' = [frame EXCEPT ![t] = [@ EXCEPT
                    !.event_type = PyStr(EIFFEL_ARTIFACT_PUBLISHED_EVENT),
                    !.version = PyStr(VERSION_3_0_0),
                    !.given_id = None, !.given_time = PyInt(0),
                    !.event_id = None, !.time = PyInt(0),
                    !.tags = None,
                    !.source = SourceDefaults]]
    /\ pc' = [pc EXCEPT ![t] = "m57"]
    /\ UNCHANGED <<issued, clock, calls, produced, classifierVars>>

\* meta = Meta(EIFFEL_ARTIFACT_PUBLISHED_EVENT, VERSION_3_0_0, source=Source()):
\* evaluates Source() and enters Meta.__init__ with event_id, time and tags at
\* their default, None
L149(t) ==
    /\ pc[t] = "l149"
    /\ frame' = [frame EXCEPT ![t] = [@ EXCEPT
                    !.event_type = PyStr(EIFFEL_ARTIFACT_PUBLISHED_EVENT),
                    !.version = PyStr(VERSION_3_0_0),
                    !.given_id = None, !.given_time = None,
                    !.event_id = None, !.time = None,
                    !.tags = None,
                    !.source = SourceDefaults]]
    /\ pc' = [pc EXCEPT ![t] = "m57"]
    /\ UNCHANGED <<issued, clock, calls, produced, classifierVars>>

\* ------------------------------------------------------------ Meta.__init__
\* a direct call Meta(event_type, version, event_id, time, tags, source)
CallMeta(t, event_type, version, event_id, time, tags, source) ==
    /\ pc[t] = "idle"
    /\ calls < MaxCalls
    /\ calls' = calls + 1
    /\ frame' = [frame EXCEPT ![t] = [IdleFrame EXCEPT
                    !.op = "Meta",
                    !.event_type = event_type, !.version = version,
                    !.given_id = event_id, !.given_time = time,
                    !.event_id = event_id, !.time = time,
                    !.tags = tags, !.source = source]]
    /\ pc' = [pc EXCEPT ![t] = "m57"]
    /\ UNCHANGED <<issued, clock, produced, classifierVars>>

\* a variant of lines 57-58 in which the generated id is a default drawn once
\* and shared by every call
M57_SharedDefault(t) ==
    /\ pc[t] = "m57"
    /\ IF frame[t].event_id = None
       THEN /\ issued' = issued \cup {1}
            /\ frame' = [frame EXCEPT ![t] = [@ EXCEPT
                            !.event_id = UuidStr(1),
                            !.uuid_calls = @ + 1,
                            !.uuid_ret = UuidStr(1)]]
       ELSE UNCHANGED <<issued, frame>>
    /\ pc' = [pc EXCEPT ![t] = "m60"]
    /\ UNCHANGED <<clock, calls, produced, classifierVars>>

\* if event_id is None: event_id = str(uuid.uuid4())
\* uuid4 returns a value it has not returned before
M57(t) ==
    /\ pc[t] = "m57"
    /\ IF frame[t].event_id = None
       THEN \E u \in UuidPool \ issued :
               /\ issued' = issued \cup {u}
               /\ frame' = [frame EXCEPT ![t] = [@ EXCEPT
                               !.event_id = UuidStr(u),
                               !.uuid_calls = @ + 1,
                               !.uuid_ret = UuidStr(u)]]
       ELSE UNCHANGED <<issued, frame>>
    /\ pc' = [pc EXCEPT ![t] = "m60"]
    /\ UNCHANGED <<clock, calls, produced, classifierVars>>

\* a variant of lines 60-61 that reads the clock whatever time was passed
M60_AlwaysReads(t) ==
    /\ pc[t] = "m60"
    /\ frame' = [frame EXCEPT ![t] = [@ EXCEPT
                    !.time = PyInt(clock),
                    !.clock_reads = @ + 1,
                    !.clock_ret = PyInt(clock)]]
    /\ pc' = [pc EXCEPT ![t] = "m63"]
    /\ UNCHANGED <<issued, clock, calls, produced, classifierVars>>

\* if time is None: time = utils.current_time_millis()
M60(t) ==
    /\ pc[t] = "m60"
    /\ IF frame[t].time = None
       THEN frame' = [frame EXCEPT ![t] = [@ EXCEPT
                         !.time = PyInt(clock),
                         !.clock_reads = @ + 1,
                         !.clock_ret = PyInt(clock)]]
       ELSE UNCHANGED frame
    /\ pc' = [pc EXCEPT ![t] = "m63"]
    /\ UNCHANGED <<issued, clock, calls, produced, classifierVars>>

\* super().__init__(self, id=event_id, type=event_type, ...); Meta.__init__
\* ends and the new Meta is bound by the caller
M63(t) ==
    /\ pc[t] = "m63"
    /\ frame' = [frame EXCEPT ![t].meta =
                    MetaDict(frame[t].event_type, frame[t].version,
                             frame[t].event_id, frame[t].time,
                             frame[t].tags, frame[t].source)]
    /\ pc' = [pc EXCEPT ![t] = IF frame[t].op = "create" THEN "l151" ELSE "mret"]
    /\ UNCHANGED <<issued, clock, calls, produced, classifierVars>>

\* the direct caller of Meta(...) has the Meta and drops it
MetaReturn(t) ==
    /\ pc[t] = "mret"
    /\ frame' = [frame EXCEPT ![t] = IdleFrame]
    /\ pc' = [pc EXCEPT ![t] = "idle"]
    /\ UNCHANGED <<issued, clock, calls, produced, classifierVars>>

\* event = Event(data, links, meta)
L151(t) ==
    /\ pc[t] = "l151"
    /\ frame' = [frame EXCEPT ![t].event =
                    Event(frame[t].data, frame[t].links, frame[t].meta)]
    /\ pc' = [pc EXCEPT ![t] = "l153"]
    /\ UNCHANGED <<issued, clock, calls, produced, classifierVars>>

\* return event
L153(t) ==
    /\ pc[t] = "l153"
    /\ produced' = Append(produced, frame[t].event)
    /\ frame' = [frame EXCEPT ![t] = IdleFrame]
    /\ pc' = [pc EXCEPT ![t] = "idle"]
    /\ UNCHANGED <<issued, clock, calls, classifierVars>>

\* the wall clock advances
Tick ==
    /\ clock < MaxTime
    /\ clock' = clock + 1
    /\ UNCHANGED <<pc, frame, issued, calls, produced, classifierVars>>

\* ------------------------------------------------------ classifier actions
\* the consumer receives a document: one of another producer, or one this
\* module has produced
Receive(d) ==
    /\ event' = d
    /\ type_arg' = Unbound
    /\ result' = Unbound
    /\ lastCall' = "none"
    /\ UNCHANGED <<sources, factoryVars>>

\* the configuration supplies the list of source names
Configure(srcs) ==
    /\ sources' = srcs
    /\ type_arg' = Unbound
    /\ result' = Unbound
    /\ lastCall' = "none"
    /\ UNCHANGED <<event, factoryVars>>

\* is_eiffel_event_type(event, ty)
IsEiffelEventTypeCall(ty) ==
    /\ event # Unbound
    /\ result' = is_eiffel_event_type(event, ty)
    /\ type_arg' = ty
    /\ lastCall' = "is_eiffel_event_type"
    /\ UNCHANGED <<event, sources, factoryVars>>

\* is_artifact_created_event(event)
IsArtifactCreatedEventCall ==
    /\ event # Unbound
    /\ result' = is_artifact_created_event(event)
    /\ type_arg' = Unbound
    /\ lastCall' = "is_artifact_created_event"
    /\ UNCHANGED <<event, sources, factoryVars>>

\* a variant of the call that empties the list of source names it searches
IsSentFromSourcesCall_ClearsSources ==
    /\ event # Unbound
    /\ sources # Unbound
    /\ result' = is_sent_from_sources(event, sources)
    /\ sources' = PyList(<<>>)
    /\ type_arg' = Unbound
    /\ lastCall' = "is_sent_from_sources"
    /\ UNCHANGED <<event, factoryVars>>

\* is_sent_from_sources(event, sources)
IsSentFromSourcesCall ==
    /\ event # Unbound
    /\ sources # Unbound
    /\ result' = is_sent_from_sources(event, sources)
    /\ type_arg' = Unbound
    /\ lastCall' = "is_sent_from_sources"
    /\ UNCHANGED <<event, sources, factoryVars>>

\* ------------------------------------------------------- the specification
Init ==
    /\ pc = [t \in Threads |-> "idle"]
    /\ frame = [t \in Threads |-> IdleFrame]
    /\ issued = {}
    /\ clock = 1
    /\ calls = 0
    /\ produced = <<>>
    /\ event = Unbound
    /\ sources = Unbound
    /\ type_arg = Unbound
    /\ result = Unbound
    /\ lastCall = "none"

Next ==
    \/ \E t \in Threads, r \in Requests : CallCreate(t, r[1], r[2])
    \/ \E t \in Threads : L147(t)
    \/ \E t \in Threads : L148(t)
    \/ \E t \in Threads : L149(t)
    \/ \E t \in Threads, i \in MetaEventIds, ti \in MetaTimes,
          tg \in MetaTags, s \in MetaSources :
          CallMeta(t, PyStr(EIFFEL_ARTIFACT_CREATED_EVENT), PyStr(VERSION_3_0_0), i, ti, tg, s)
    \/ \E t \in Threads : M57(t)
    \/ \E t \in Threads : M60(t)
    \/ \E t \in Threads : M63(t)
    \/ \E t \in Threads : MetaReturn(t)
    \/ \E t \in Threads : L151(t)
    \/ \E t \in Threads : L153(t)
    \/ Tick

Spec == Init /\ [][Next]_vars

\* The classifier is specified apart from the factory: its calls read a
\* document and touch nothing the factory's threads use.  The consumer starts
\* either before the factory has produced anything or after one call
\* create_artifact_published_event("abc-123", [LocationA, LocationB]) has
\* returned, with the id "uuid-1" and the time 1.
FirstEvent ==
    Event(ArtifactPublishedData(PyList(<<LocationA, LocationB>>)),
          PyList(<<Link(PyStr(Link_ARTIFACT), PyStr("abc-123"))>>),
          MetaDict(PyStr(EIFFEL_ARTIFACT_PUBLISHED_EVENT), PyStr(VERSION_3_0_0),
                   UuidStr(1), PyInt(1), None, SourceDefaults))

InitClassifier ==
    /\ pc = [t \in Threads |-> "idle"]
    /\ frame = [t \in Threads |-> IdleFrame]
    /\ clock = 1
    /\ \/ issued = {} /\ calls = 0 /\ produced = <<>>
       \/ issued = {1} /\ calls = 1 /\ produced = <<FirstEvent>>
    /\ event = Unbound
    /\ sources = Unbound
    /\ type_arg = Unbound
    /\ result = Unbound
    /\ lastCall = "none"

NextClassifier ==
    \/ \E d \in ExternalDocs \cup Range(produced) : Receive(d)
    \/ \E srcs \in SourceLists : Configure(srcs)
    \/ \E ty \in EventTypes : IsEiffelEventTypeCall(ty)
    \/ IsArtifactCreatedEventCall
    \/ IsSentFromSourcesCall
    \/ Tick

SpecClassifier == InitClassifier /\ [][NextClassifier]_vars


\* ------------------------------------------------------------------ claims
\* the steps of thread t
ThreadStep(t) ==
    \/ L147(t) \/ L148(t) \/ L149(t)
    \/ M57(t) \/ M60(t) \/ M63(t) \/ MetaReturn(t)
    \/ L151(t) \/ L153(t)

\* the threads about to return from create_artifact_published_event
Returning == {t \in Threads : pc[t] = "l153"}

\* C1: the event create_artifact_published_event(linkedEventId, locations)
\* returns has exactly the fields data, links and meta; meta.type is
\* "EiffelArtifactPublishedEvent" and meta.version "3.0.0"; links has one
\* element, of type "ARTIFACT" and target linkedEventId; data.locations is
\* the locations passed, in the same order.
C1_PublishedEventShape ==
    \A t \in Returning :
        LET e == frame[t].event IN
        /\ e.t = "dict"
        /\ DOMAIN e.v = {"data", "links", "meta"}
        /\ e.v.meta.v.type = PyStr("EiffelArtifactPublishedEvent")
        /\ e.v.meta.v.version = PyStr("3.0.0")
        /\ e.v.links.t = "list"
        /\ Len(e.v.links.v) = 1
        /\ e.v.links.v[1].v.type = PyStr("ARTIFACT")
        /\ e.v.links.v[1].v.target = frame[t].artc_event_id
        /\ e.v.data.v.locations = frame[t].locations

\* C1's case: a call with two locations is about to return them in order,
\* while another call was given the empty list
C1_Witness ==
    \E t \in Returning :
        /\ frame[t].locations = PyList(<<LocationB, LocationA>>)
        /\ frame[t].event.v.data.v.locations.v[1] = LocationB
        /\ \E i \in DOMAIN produced : produced[i].v.data.v.locations = PyList(<<>>)

\* the meta.id of every event returned or about to be returned
EventIds ==
    [i \in DOMAIN produced |-> produced[i].v.meta.v.id]
        \o [i \in 1..Cardinality(Returning) |->
               LET t == CHOOSE u \in Returning :
                            Cardinality({w \in Returning : w < u}) = i - 1
               IN frame[t].event.v.meta.v.id]

\* C4: the meta.id values of the events produced so far, by calls in any
\* order and interleaving, are pairwise distinct (uuid4 returning no value
\* twice).
C4_DistinctIds ==
    \A i, j \in DOMAIN EventIds : i # j => EventIds[i] # EventIds[j]

\* C4's case: two events have been produced
C4_Witness == Len(EventIds) >= 2

\* C7: a Meta built with an explicit id has that id and no id was generated,
\* one built without has the id uuid4 generated for it; a Meta built with an
\* explicit time has that time and the clock was not read, one built without
\* has the time read from the clock.
C7_IdTimeDefaulting ==
    \A t \in Threads :
        frame[t].meta # Unbound =>
            LET f == frame[t]  m == frame[t].meta.v IN
            /\ IF f.given_id # None
               THEN m.id = f.given_id /\ f.uuid_calls = 0
               ELSE m.id = f.uuid_ret /\ f.uuid_calls = 1 /\ f.uuid_ret.t = "str"
            /\ IF f.given_time # None
               THEN m.time = f.given_time /\ f.clock_reads = 0
               ELSE m.time = f.clock_ret /\ f.clock_reads = 1
                    /\ f.clock_ret.t = "int" /\ f.clock_ret.v \in 1..clock

\* C7's case: Meta was called with an explicit id and no time, and has
\* built the Meta
C7_Witness ==
    \E t \in Threads :
        /\ pc[t] = "mret"
        /\ frame[t].given_id = PyStr("explicit-id")
        /\ frame[t].given_time = None
        /\ frame[t].meta.v.id = PyStr("explicit-id")

\* the events returned or about to be returned
Events == Range(produced) \cup {frame[t].event : t \in Returning}

\* C8: every event of create_artifact_published_event has meta.source.name
\* "EIFFELACTORY", and has meta.source.domainId, host, serializer and uri
\* and meta.tags present with the value null.
C8_SourceAndNulls ==
    \A e \in Events :
        LET m == e.v.meta.v IN
        /\ {"source", "tags"} \subseteq DOMAIN m
        /\ m.tags = None
        /\ m.source.t = "dict"
        /\ DOMAIN m.source.v = {"domainId", "host", "name", "serializer", "uri"}
        /\ m.source.v.name = PyStr("EIFFELACTORY")
        /\ m.source.v.domainId = None
        /\ m.source.v.host = None
        /\ m.source.v.serializer = None
        /\ m.source.v.uri = None

\* C8's case: an event has been returned
C8_Witness ==
    /\ Len(produced) >= 1
    /\ produced[1].v.meta.v.source.v.name = PyStr("EIFFELACTORY")

\* a call of create_artifact_published_event has generated at most one id
\* and read the clock at most once, exactly once each when it returns, and
\* its next step can be taken whatever its arguments are
C9_OneIdOneRead ==
    \A t \in Threads :
        frame[t].op = "create" =>
            /\ frame[t].uuid_calls <= 1
            /\ frame[t].clock_reads <= 1
            /\ ENABLED ThreadStep(t)
            /\ pc[t] \in {"m63", "l151", "l153"} =>
                   frame[t].uuid_calls = 1 /\ frame[t].clock_reads = 1
            /\ pc[t] = "l153" => frame[t].event.t = "dict"

\* a step of a call of create_artifact_published_event changes, besides the
\* thread's own locals, only the set of ids generated (by one id at most)
\* and the events returned (by the call's own event)
C9_NoOtherEffect ==
    \A t \in Threads :
        (pc[t] # pc'[t] /\ (frame[t].op = "create" \/ frame'[t].op = "create")) =>
            /\ UNCHANGED <<clock, event, sources, type_arg, result, lastCall>>
            /\ \A u \in Threads \ {t} : frame'[u] = frame[u] /\ pc'[u] = pc[u]
            /\ issued \subseteq issued'
            /\ Cardinality(issued') <= Cardinality(issued) + 1
            /\ \A i \in DOMAIN produced : i \in DOMAIN produced' /\ produced'[i] = produced[i]
            /\ Len(produced') = Len(produced) + (IF pc[t] = "l153" THEN 1 ELSE 0)

\* C9: a call of create_artifact_published_event generates exactly one id
\* and reads the clock exactly once, has no other effect, and cannot fail,
\* whatever linkedEventId and locations are.
C9_OneIdOneReadNoOtherEffect ==
    []C9_OneIdOneRead /\ [][C9_NoOtherEffect]_vars

\* C9's case: a call given the empty list and the id of no event returns
C9_Witness ==
    \E t \in Returning :
        /\ frame[t].locations = PyList(<<>>)
        /\ frame[t].artc_event_id = PyStr("no-such-event")
        /\ frame[t].uuid_calls = 1
        /\ frame[t].clock_reads = 1

\* the outcome is a returned boolean
IsBoolean(outcome) == outcome.kind = "return" /\ outcome.value \in BOOLEAN

\* the document is a mapping that holds a meta mapping
HasMeta(ev) == ev.t = "dict" /\ "meta" \in DOMAIN ev.v /\ ev.v.meta.t = "dict"

\* the document holds meta.type
HasMetaType(ev) == HasMeta(ev) /\ "type" \in DOMAIN ev.v.meta.v

\* the document is a mapping that does not hold meta
LacksMeta(ev) == ev.t = "dict" /\ "meta" \notin DOMAIN ev.v

\* the document holds meta as null
NullMeta(ev) == ev.t = "dict" /\ "meta" \in DOMAIN ev.v /\ ev.v.meta = None

\* the document holds a meta mapping whose source, when present, is null or
\* a mapping
HasTypedSource(ev) ==
    /\ HasMeta(ev)
    /\ "source" \in DOMAIN ev.v.meta.v => ev.v.meta.v.source.t \in {"NoneType", "dict"}

\* meta.source.name when the document holds it and it is not null, and
\* Unbound otherwise
SourceName(ev) ==
    LET m == ev.v.meta.v IN
    IF /\ "source" \in DOMAIN m
       /\ m.source.t = "dict"
       /\ "name" \in DOMAIN m.source.v
       /\ m.source.v.name # None
    THEN m.source.v.name
    ELSE Unbound

TypeClassifiers == {"is_eiffel_event_type", "is_artifact_created_event"}

\* C2 as stated: whatever the document, each classifier returns a boolean
\* and never ends in an error.
C2_NeverRaises == lastCall # "none" => IsBoolean(result)

\* C2 as amended: is_eiffel_event_type and is_artifact_created_event return
\* a boolean for a document that holds meta.type, is_sent_from_sources
\* returns a boolean for a document that holds a meta mapping whose source is
\* absent, null or a mapping, and false when source or name is absent or
\* null; a document without meta (without meta.type, for the first two) ends
\* the call in KeyError, a document whose meta is null in TypeError.
C2_NoRaiseGivenMeta ==
    /\ lastCall \in TypeClassifiers =>
          /\ HasMetaType(event) => IsBoolean(result)
          /\ LacksMeta(event) => result = Raise("KeyError")
          /\ (HasMeta(event) /\ ~HasMetaType(event)) => result = Raise("KeyError")
          /\ NullMeta(event) => result = Raise("TypeError")
    /\ lastCall = "is_sent_from_sources" =>
          /\ HasTypedSource(event) =>
                /\ IsBoolean(result)
                /\ SourceName(event) = Unbound => result = Return(FALSE)
          /\ LacksMeta(event) => result = Raise("KeyError")
          /\ NullMeta(event) => result = Raise("TypeError")

\* C2's case: a document that holds neither meta.type nor meta.source, and
\* one whose meta.source is null, are classified as not sent from the sources
C2_Witness ==
    /\ lastCall = "is_sent_from_sources"
    /\ HasMeta(event)
    /\ \/ DOMAIN event.v.meta.v = {"id"}
       \/ "source" \in DOMAIN event.v.meta.v /\ event.v.meta.v.source = None
    /\ result = Return(FALSE)

C5_TypeEquality ==
    (lastCall = "is_eiffel_event_type" /\ HasMetaType(event)) =>
        result = Return(event.v.meta.v.type = type_arg)

\* C5's case: the types differ in letter case only
C5_Witness ==
    /\ lastCall = "is_eiffel_event_type"
    /\ HasMetaType(event)
    /\ event.v.meta.v.type = PyStr("eiffelartifactcreatedevent")
    /\ type_arg = PyStr("EiffelArtifactCreatedEvent")
    /\ result = Return(FALSE)

\* C6: is_artifact_created_event(e) ends as
\* is_eiffel_event_type(e, "EiffelArtifactCreatedEvent") does: with the same
\* boolean, or with the same error.
C6_CreatedIsTypeCheck ==
    lastCall = "is_artifact_created_event" =>
        result = is_eiffel_event_type(event, PyStr("EiffelArtifactCreatedEvent"))

\* C6's case: the call returned true for an artifact created event
C6_Witness ==
    /\ lastCall = "is_artifact_created_event"
    /\ HasMetaType(event)
    /\ event.v.meta.v.type = PyStr("EiffelArtifactCreatedEvent")
    /\ result = Return(TRUE)

\* a step in which a classifier function was called and returned
ClassifierStep ==
    /\ lastCall' # "none"
    /\ <<type_arg, result, lastCall>>' # <<type_arg, result, lastCall>>

\* C10: a call of a classifier function leaves the document and the sources
\* passed to it, the ids generated, the clock and every event produced as
\* they were.
C10_ClassifierOnlyReads ==
    [][ClassifierStep =>
          /\ UNCHANGED <<event, sources, issued, clock, pc, frame>>
          /\ produced' = produced]_vars

\* C10's case: a produced event has been classified
C10_Witness ==
    /\ lastCall = "is_sent_from_sources"
    /\ event \in Range(produced)
    /\ event.v.meta.v.id = UuidStr(1)
    /\ result = Return(TRUE)

====
